---- MODULE Spec2Model ----
(***************************************************************************)
(* The record store of internal/log/store.go: one backing file behind an   *)
(* os.File handle, a bufio.Writer in front of it, and the size counter,    *)
(* all guarded by one mutex.  Bytes are modelled as bytes, the file as the *)
(* sequence of its bytes, and the bufio.Writer by what bufio does (Write   *)
(* flushes by itself when the buffer runs full, errors are sticky).        *)
(***************************************************************************)
EXTENDS Integers, Sequences, FiniteSets, TLC

(* ------------------------------ bounds --------------------------------- *)
\* Capacity of the bufio.Writer made by bufio.NewWriter (4096 in Go's
\* library), scaled down so that a few small records fill it.
defaultBufSize == 16
\* Successful Append calls on the file, all store instances together.
MaxAppends == 3
\* Calls the HTTP handlers make to the log.
MaxLogCalls == 3

(* ----------------------------- constants ------------------------------- *)
lenWidth == 8

Procs == {1, 2}

\* The payloads callers append: the empty one, and one larger than the
\* write buffer, whose bytes decode to a huge length when a read takes them
\* for a length prefix.
BigPayload == [i \in 1..(defaultBufSize + 1) |-> 255]
Payloads == {<< >>, BigPayload}

NoErr == "nil"

Min(a, b) == IF a < b THEN a ELSE b

(* ------------------------------ state ---------------------------------- *)
VARIABLES
    file,     \* the bytes of the backing file, as the file system holds them
    fd,       \* the *os.File handle: write offset, O_APPEND flag, closed
    buf,      \* store.buf: the bytes the bufio.Writer holds
    berr,     \* store.buf's sticky error
    size,     \* store.size
    mu,       \* store.mu: 0 when unlocked, else the caller holding it
    pc,       \* each caller: "lock" (at s.mu.Lock()) or "cs" (holding it)
    initSize, \* size as newStore set it
    hist,     \* the successful Appends of this instance, in lock order
    callers,  \* the callers whose Append on this instance succeeded
    appends,  \* successful Appends on the file, all instances together
    snap,     \* hist and size at the last successful Close
    last,     \* the call that returned last, with what it returned, until
              \* the next call takes the lock
    logCalls, \* httpServer: the calls its handlers have made to s.Log
    resp      \* httpServer: the request handled last and the response to it

\* The store's variables, the HTTP server's, and all of them.
storeVars == <<file, fd, buf, berr, size, mu, pc, initSize, hist, callers,
               appends, snap, last>>
httpVars == <<logCalls, resp>>
vars == <<storeVars, httpVars>>

(* ------------------------ encoding/binary ------------------------------ *)
\* enc.PutUint64 as binary.Write(s.buf, enc, uint64(len(p))) uses it: the
\* eight bytes of n, most significant first.  Lengths here stay below 2^24,
\* so the five high bytes are the zero bytes they are in Go.
PutUint64(n) ==
    <<0, 0, 0, 0, 0, n \div 65536, (n \div 256) % 256, n % 256>>

\* enc.Uint64(size), in two parts because the value has 64 bits: the class
\* of the value and, for a value below 2^24, the value itself.
\*   "over"  : 2^48 or more (one of the two high bytes is set): more than
\*             the runtime can allocate, make([]byte, n) panics
\*   "large" : 2^24 .. 2^48 - 1: far beyond any file of this model
\*   "small" : below 2^24
Uint64Class(b) ==
    IF b[1] # 0 \/ b[2] # 0 THEN "over"
    ELSE IF b[3] # 0 \/ b[4] # 0 \/ b[5] # 0 THEN "large"
    ELSE "small"

Uint64Low(b) == b[6] * 65536 + b[7] * 256 + b[8]

\* One record on disk: the length prefix, then the payload.
Frame(p) == PutUint64(Len(p)) \o p

(* ------------------------------ os.File -------------------------------- *)
\* f with data written over it from byte offset at (0-based); the file
\* grows when the data ends past its end.
Overwrite(f, at, data) ==
    SubSeq(f, 1, at) \o data \o SubSeq(f, at + Len(data) + 1, Len(f))

\* (*os.File).Write(data): at the end of the file under O_APPEND, else at
\* the handle's offset; a closed handle writes nothing.  A medium with too
\* little room takes what fits and fails.
FileWrite(f, h, d, data) ==
    IF h.closed
    THEN [file |-> f, fd |-> h, dev |-> d, n |-> 0, err |-> "ErrClosed"]
    ELSE LET m  == IF d.limited /\ d.room < Len(data) THEN d.room ELSE Len(data)
             at == IF h.append THEN Len(f) ELSE h.off
         IN  [file |-> Overwrite(f, at, SubSeq(data, 1, m)),
              fd   |-> [h EXCEPT !.off = at + m],
              dev  |-> [d EXCEPT !.room = IF d.limited THEN @ - m ELSE @],
              n    |-> m,
              err  |-> IF m < Len(data) THEN "ENOSPC" ELSE NoErr]

\* The bytes of f from byte offset off (0-based) on, n of them or as many
\* as there are.
Slice(f, off, n) == SubSeq(f, off + 1, Min(off + n, Len(f)))

\* (*os.File).ReadAt(b, off) with len(b) = n: a negative offset is refused,
\* an empty b reads nothing and succeeds, and a read that ends past the end
\* of the file returns the bytes there are together with io.EOF.
FileReadAt(f, h, d, n, off) ==
    IF off < 0 THEN [data |-> << >>, err |-> "negative offset"]
    ELSE IF n = 0 THEN [data |-> << >>, err |-> NoErr]
    ELSE IF h.closed THEN [data |-> << >>, err |-> "ErrClosed"]
    ELSE IF d.rderr THEN [data |-> << >>, err |-> "EIO"]
    ELSE LET got == Slice(f, off, n)
         IN  [data |-> got, err |-> IF Len(got) < n THEN "EOF" ELSE NoErr]

(* ----------------------------- bufio.Writer ---------------------------- *)
\* The storage medium during one call: sound, or with room for only so
\* many more bytes, or failing every read.
Sound == [limited |-> FALSE, room |-> 0, rderr |-> FALSE]

\* A writer and the world under it during a call on medium d:
\* w = [file, fd, dev, buf, err].
Writer(d) == [file |-> file, fd |-> fd, dev |-> d, buf |-> buf, err |-> berr]

Available(w) == defaultBufSize - Len(w.buf)

\* Flush with a slip: an error of an earlier write is forgotten and the
\* write is tried again.
FlushRetrying(w) ==
    IF Len(w.buf) = 0 THEN [w EXCEPT !.err = NoErr]
    ELSE LET r == FileWrite(w.file, w.fd, w.dev, w.buf)
         IN  [file |-> r.file, fd |-> r.fd, dev |-> r.dev,
              buf  |-> SubSeq(w.buf, r.n + 1, Len(w.buf)),
              err  |-> r.err]

\* (*bufio.Writer).Flush, as s.buf.Flush() calls it: a sticky error comes
\* back at once, an empty buffer is no write, and a failed write keeps the
\* unwritten bytes and makes the error sticky.  The error Flush returns is
\* the err field of the result.
Flush(w) ==
    IF w.err # NoErr THEN w
    ELSE IF Len(w.buf) = 0 THEN w
    ELSE LET r == FileWrite(w.file, w.fd, w.dev, w.buf)
         IN  [file |-> r.file, fd |-> r.fd, dev |-> r.dev,
              buf  |-> SubSeq(w.buf, r.n + 1, Len(w.buf)),
              err  |-> r.err]

\* (*bufio.Writer).Write(p), as s.buf.Write(p) and binary.Write call it:
\* while p does not fit, an empty buffer passes p straight to the file and
\* a filled one is topped up and flushed; what is left is copied in.
\* nn counts the bytes taken so far.
RECURSIVE BufWrite(_, _, _)
BufWrite(w, p, nn) ==
    IF Len(p) > Available(w) /\ w.err = NoErr
    THEN IF Len(w.buf) = 0
         THEN LET r == FileWrite(w.file, w.fd, w.dev, p)
              IN  BufWrite([w EXCEPT !.file = r.file, !.fd = r.fd,
                                     !.dev = r.dev, !.err = r.err],
                           SubSeq(p, r.n + 1, Len(p)), nn + r.n)
         ELSE LET n == Available(w)
              IN  BufWrite(Flush([w EXCEPT !.buf = @ \o SubSeq(p, 1, n)]),
                           SubSeq(p, n + 1, Len(p)), nn + n)
    ELSE IF w.err # NoErr
         THEN [w |-> w, nn |-> nn, err |-> w.err]
         ELSE [w |-> [w EXCEPT !.buf = @ \o p], nn |-> nn + Len(p), err |-> NoErr]


(* ------------------------------ store ---------------------------------- *)
Range(q) == {q[i] : i \in 1..Len(q)}

\* What a call returned: the operation, its arguments (the payload p of an
\* Append, the position or offset off and the buffer length len of a read)
\* and its results (n, pos, data, err).
Ret(op, p, off, len, n, pos, data, err) ==
    [op |-> op, p |-> p, off |-> off, len |-> len,
     n |-> n, pos |-> pos, data |-> data, err |-> err]

\* The handles a caller can pass to newStore: freshly opened on the file,
\* so at offset 0, with or without O_APPEND.
Handles == [off : {0}, append : BOOLEAN, closed : {FALSE}]

Init ==
    /\ file = << >>
    /\ fd = [off |-> 0, append |-> FALSE, closed |-> FALSE]
    /\ buf = << >>
    /\ berr = NoErr
    /\ size = Len(file)
    /\ mu = 0
    /\ pc = [c \in Procs |-> "lock"]
    /\ initSize = Len(file)
    /\ hist = << >>
    /\ callers = {}
    /\ appends = 0
    /\ snap = [size |-> 0, hist |-> << >>]
    /\ last = Ret("newStore", << >>, 0, 0, 0, 0, << >>, NoErr)
    /\ logCalls = << >>
    /\ resp = [handler |-> "none", decoded |-> FALSE, called |-> FALSE,
               logErr |-> NoErr, status |-> 0, body |-> [none |-> TRUE]]

\* No call has returned since the lock was last taken.
NoRet == Ret("none", << >>, 0, 0, 0, 0, << >>, NoErr)

\* Lock with a slip: the caller does not wait for the mutex to be free.
LockNoWait(c) ==
    /\ pc[c] = "lock"
    /\ mu' = c
    /\ pc' = [pc EXCEPT ![c] = "cs"]
    /\ last' = NoRet
    /\ UNCHANGED <<file, fd, buf, berr, size, initSize, hist, callers,
                   appends, snap, httpVars>>

\* s.mu.Lock(): the caller waits until the mutex is free and takes it.
Lock(c) ==
    /\ pc[c] = "lock"
    /\ mu = 0
    /\ mu' = c
    /\ pc' = [pc EXCEPT ![c] = "cs"]
    /\ last' = NoRet
    /\ UNCHANGED <<file, fd, buf, berr, size, initSize, hist, callers,
                   appends, snap, httpVars>>

\* Unlock with a slip: the return leaves the mutex held.
UnlockKeeps(c) ==
    /\ mu' = mu
    /\ pc' = [pc EXCEPT ![c] = "lock"]

\* defer s.mu.Unlock(), which runs on every return of the four operations.
Unlock(c) ==
    /\ mu' = 0
    /\ pc' = [pc EXCEPT ![c] = "lock"]

\* The writer's state after a call, put back into the variables.
SetWriter(w) ==
    /\ file' = w.file
    /\ fd' = w.fd
    /\ buf' = w.buf
    /\ berr' = w.err

\* Append with plausible slips, each used to show that a property below
\* depends on what Append computes: the position read after the size was
\* advanced; the size advanced by the payload alone; the size advanced
\* although the payload write failed; the buffer flushed before returning;
\* the payload written before its prefix; a closed store refused.
AppendResultPosAfter(w, sz, p) ==
    LET r1 == BufWrite(w, PutUint64(Len(p)), 0)
        r2 == BufWrite(r1.w, p, 0)
    IN  IF r1.err # NoErr
        THEN [w |-> r1.w, size |-> sz, n |-> 0, pos |-> 0, err |-> r1.err]
        ELSE IF r2.err # NoErr
        THEN [w |-> r2.w, size |-> sz, n |-> 0, pos |-> 0, err |-> r2.err]
        ELSE [w |-> r2.w, size |-> sz + (r2.nn + lenWidth),
              n |-> r2.nn + lenWidth, pos |-> sz + (r2.nn + lenWidth), err |-> NoErr]

AppendResultNoWidth(w, sz, p) ==
    LET r1 == BufWrite(w, PutUint64(Len(p)), 0)
        r2 == BufWrite(r1.w, p, 0)
    IN  IF r1.err # NoErr
        THEN [w |-> r1.w, size |-> sz, n |-> 0, pos |-> 0, err |-> r1.err]
        ELSE IF r2.err # NoErr
        THEN [w |-> r2.w, size |-> sz, n |-> 0, pos |-> 0, err |-> r2.err]
        ELSE [w |-> r2.w, size |-> sz + r2.nn,
              n |-> r2.nn + lenWidth, pos |-> sz, err |-> NoErr]

AppendResultAdvance(w, sz, p) ==
    LET r1 == BufWrite(w, PutUint64(Len(p)), 0)
        r2 == BufWrite(r1.w, p, 0)
    IN  IF r1.err # NoErr
        THEN [w |-> r1.w, size |-> sz, n |-> 0, pos |-> 0, err |-> r1.err]
        ELSE IF r2.err # NoErr
        THEN [w |-> r2.w, size |-> sz + (r2.nn + lenWidth),
              n |-> 0, pos |-> 0, err |-> r2.err]
        ELSE [w |-> r2.w, size |-> sz + (r2.nn + lenWidth),
              n |-> r2.nn + lenWidth, pos |-> sz, err |-> NoErr]

AppendResultFlushing(w, sz, p) ==
    LET r1 == BufWrite(w, PutUint64(Len(p)), 0)
        r2 == BufWrite(r1.w, p, 0)
    IN  IF r1.err # NoErr
        THEN [w |-> r1.w, size |-> sz, n |-> 0, pos |-> 0, err |-> r1.err]
        ELSE IF r2.err # NoErr
        THEN [w |-> r2.w, size |-> sz, n |-> 0, pos |-> 0, err |-> r2.err]
        ELSE [w |-> Flush(r2.w), size |-> sz + (r2.nn + lenWidth),
              n |-> r2.nn + lenWidth, pos |-> sz, err |-> NoErr]

AppendResultPayloadFirst(w, sz, p) ==
    LET r1 == BufWrite(w, p, 0)
        r2 == BufWrite(r1.w, PutUint64(Len(p)), 0)
    IN  IF r1.err # NoErr
        THEN [w |-> r1.w, size |-> sz, n |-> 0, pos |-> 0, err |-> r1.err]
        ELSE IF r2.err # NoErr
        THEN [w |-> r2.w, size |-> sz, n |-> 0, pos |-> 0, err |-> r2.err]
        ELSE [w |-> r2.w, size |-> sz + (r1.nn + lenWidth),
              n |-> r1.nn + lenWidth, pos |-> sz, err |-> NoErr]

AppendResultClosedFlag(w, sz, p) ==
    LET r1 == BufWrite(w, PutUint64(Len(p)), 0)
        r2 == BufWrite(r1.w, p, 0)
    IN  IF w.fd.closed
        THEN [w |-> w, size |-> sz, n |-> 0, pos |-> 0, err |-> "ErrClosed"]
        ELSE IF r1.err # NoErr
        THEN [w |-> r1.w, size |-> sz, n |-> 0, pos |-> 0, err |-> r1.err]
        ELSE IF r2.err # NoErr
        THEN [w |-> r2.w, size |-> sz, n |-> 0, pos |-> 0, err |-> r2.err]
        ELSE [w |-> r2.w, size |-> sz + (r2.nn + lenWidth),
              n |-> r2.nn + lenWidth, pos |-> sz, err |-> NoErr]

\* What Append computes: the prefix through binary.Write, then the payload,
\* then the size.  A failed write returns (0, 0, err) and leaves size alone.
AppendResult(w, sz, p) ==
    LET r1 == BufWrite(w, PutUint64(Len(p)), 0)
        r2 == BufWrite(r1.w, p, 0)
    IN  IF r1.err # NoErr
        THEN [w |-> r1.w, size |-> sz, n |-> 0, pos |-> 0, err |-> r1.err]
        ELSE IF r2.err # NoErr
        THEN [w |-> r2.w, size |-> sz, n |-> 0, pos |-> 0, err |-> r2.err]
        ELSE [w |-> r2.w, size |-> sz + (r2.nn + lenWidth),
              n |-> r2.nn + lenWidth, pos |-> sz, err |-> NoErr]

\* store.Append(p), from the lock taken to the deferred unlock (Append
\* itself names the operator of Sequences).
StoreAppend(c, p, d) ==
    /\ pc[c] = "cs"
    /\ appends < MaxAppends
    /\ \E r \in {AppendResult(Writer(d), size, p)} :
           /\ SetWriter(r.w)
           /\ size' = r.size
           /\ hist' = IF r.err = NoErr
                      THEN Append(hist, [pos |-> r.pos, n |-> r.n, p |-> p])
                      ELSE hist
           /\ callers' = IF r.err = NoErr THEN callers \cup {c} ELSE callers
           /\ appends' = IF r.err = NoErr THEN appends + 1 ELSE appends
           /\ last' = Ret("Append", p, 0, 0, r.n, r.pos, << >>, r.err)
    /\ Unlock(c)
    /\ UNCHANGED <<initSize, snap, httpVars>>

\* Whether the runtime runs out of memory in make([]byte, n) is open only
\* for a length between 2^24 and 2^48.
OomChoices(w, pos) ==
    LET hd == FileReadAt(w.file, w.fd, w.dev, lenWidth, pos)
    IN  IF w.err = NoErr /\ hd.err = NoErr /\ Uint64Class(hd.data) = "large"
        THEN BOOLEAN ELSE {FALSE}

\* What Read computes on the flushed writer w: the 8-byte prefix at pos, a
\* slice of the decoded length, the payload at pos + lenWidth.  A length of
\* 2^48 or more makes make([]byte, n) panic; one between 2^24 and 2^48 is
\* either allocated, and then the read ends at the end of the file, or the
\* runtime gives up for lack of memory (oom).
ReadResult(w, pos, oom) ==
    LET hd == FileReadAt(w.file, w.fd, w.dev, lenWidth, pos)
        n  == Uint64Low(hd.data)
        b  == FileReadAt(w.file, w.fd, w.dev, n, pos + lenWidth)
    IN  IF w.err # NoErr THEN [data |-> << >>, err |-> w.err]
        ELSE IF hd.err # NoErr THEN [data |-> << >>, err |-> hd.err]
        ELSE IF Uint64Class(hd.data) = "over" THEN [data |-> << >>, err |-> "panic"]
        ELSE IF Uint64Class(hd.data) = "large"
        THEN [data |-> << >>, err |-> IF oom THEN "fatal" ELSE "EOF"]
        ELSE IF b.err # NoErr THEN [data |-> << >>, err |-> b.err]
        ELSE [data |-> b.data, err |-> NoErr]

\* store.Read(pos): flush, then read from the file.
Read(c, pos, d) ==
    /\ pc[c] = "cs"
    /\ \E w \in {Flush(Writer(d))} :
           \E oom \in OomChoices(w, pos) :
               \E r \in {ReadResult(w, pos, oom)} :
                   /\ SetWriter(w)
                   /\ last' = Ret("Read", << >>, pos, 0, Len(r.data), 0, r.data, r.err)
    /\ Unlock(c)
    /\ UNCHANGED <<size, initSize, hist, callers, appends, snap, httpVars>>

\* What ReadAt returns on the flushed writer w: the flush error, or what
\* File.ReadAt gives for a buffer of len bytes at off.
ReadAtResult(w, len, off) ==
    IF w.err # NoErr THEN [data |-> << >>, err |-> w.err]
    ELSE FileReadAt(w.file, w.fd, w.dev, len, off)

\* store.ReadAt(p, off) with len(p) = len.
ReadAt(c, len, off, d) ==
    /\ pc[c] = "cs"
    /\ \E w \in {Flush(Writer(d))} :
       \E r \in {ReadAtResult(w, len, off)} :
           /\ SetWriter(w)
           /\ last' = Ret("ReadAt", << >>, off, len, Len(r.data), 0, r.data, r.err)
    /\ Unlock(c)
    /\ UNCHANGED <<size, initSize, hist, callers, appends, snap, httpVars>>

\* (*os.File).Close(): a handle closed before answers ErrClosed.
FileClose(h) ==
    [fd |-> [h EXCEPT !.closed = TRUE],
     err |-> IF h.closed THEN "ErrClosed" ELSE NoErr]

\* store.Close(): flush and, only when the flush succeeded, close the file.
Close(c, d) ==
    /\ pc[c] = "cs"
    /\ \E w \in {Flush(Writer(d))} :
       \E k \in {FileClose(w.fd)} :
       \E e \in {IF w.err # NoErr THEN w.err ELSE k.err} :
           /\ SetWriter(IF w.err # NoErr THEN w ELSE [w EXCEPT !.fd = k.fd])
           /\ snap' = IF e = NoErr
                      THEN [size |-> size, hist |-> hist]
                      ELSE snap
           /\ last' = Ret("Close", << >>, 0, 0, 0, 0, << >>, e)
    /\ Unlock(c)
    /\ UNCHANGED <<size, initSize, hist, callers, appends, httpVars>>

\* newStore(f) on a freshly opened handle h of the same file, once the
\* store before it has closed its handle: size is the file's length, the
\* writer is new and empty.
newStore(h) ==
    /\ fd.closed
    /\ mu = 0
    /\ fd' = h
    /\ buf' = << >>
    /\ berr' = NoErr
    /\ size' = Len(file)
    /\ initSize' = Len(file)
    /\ hist' = << >>
    /\ callers' = {}
    /\ last' = Ret("newStore", << >>, 0, 0, 0, 0, << >>, NoErr)
    /\ UNCHANGED <<file, mu, pc, appends, snap, httpVars>>

\* The positions callers Read at: where this instance appended records,
\* inside the first prefix, behind it, and the end of the log.
Positions == {h.pos : h \in Range(hist)} \cup {1, lenWidth, size}

\* The offsets callers ReadAt: where this instance appended records and
\* (the offset is signed) before the file.
Offsets == {h.pos : h \in Range(hist)} \cup {-1}

\* The lengths of the buffers callers pass to ReadAt: room for a length
\* prefix, and the empty buffer.
BufLens == {0, lenWidth}

\* One call of a caller on medium d.
Call(c, d) ==
    \/ \E p \in Payloads : StoreAppend(c, p, d)
    \/ \E pos \in Positions : Read(c, pos, d)
    \/ \E len \in BufLens : \E off \in Offsets : ReadAt(c, len, off, d)
    \/ Close(c, d)

Next ==
    \/ \E c \in Procs : Lock(c)
    \/ \E c \in Procs : Call(c, Sound)
    \/ \E h \in Handles : newStore(h)

Spec == Init /\ [][Next]_vars

(* ------------------------- a failing medium ---------------------------- *)
\* The media a call can meet besides the sound one: room for one more
\* byte, room for a bufferful, and reads that fail.
Failing ==
    {[limited |-> TRUE, room |-> k, rderr |-> FALSE] : k \in {1, defaultBufSize}}
        \cup {[limited |-> FALSE, room |-> 0, rderr |-> TRUE]}

\* newStore(f) when os.Stat fails: no store is made, the old one stays.
newStoreFails ==
    /\ fd.closed
    /\ mu = 0
    /\ last' = Ret("newStore", << >>, 0, 0, 0, 0, << >>, "ENOENT")
    /\ UNCHANGED <<file, fd, buf, berr, size, mu, pc, initSize, hist,
                   callers, appends, snap, httpVars>>

NextFault ==
    \/ Next
    \/ \E c \in Procs : \E d \in Failing : Call(c, d)
    \/ newStoreFails

SpecFault == Init /\ [][NextFault]_vars

(* ----------------------------- httpServer ------------------------------ *)
\* The records clients produce and the offsets they consume at.
Records == {"a", "b"}
ReqOffsets == {0, 1}

\* What s.Log.Append and s.Log.Read can return: the log is a collaborator
\* of the handlers, which see of it only the value and the error it hands
\* back; the error is nil, the sentinel ErrOffsetNotFound, or another one.
LogErrs == {NoErr, "ErrOffsetNotFound", "ErrOther"}
LogAppendResults == [off : ReqOffsets, err : LogErrs]
LogReadResults == [record : Records, err : LogErrs]

\* How json.NewEncoder(w).Encode(res) can end: the response is written; the
\* value cannot be marshalled, and nothing is written; or the write to the
\* connection fails after the header went out with status 200.
Encodings == {"ok", "marshal", "write"}

StatusOK == 200
StatusBadRequest == 400
StatusNotFound == 404
StatusInternalServerError == 500

\* http.Error(w, err.Error(), code) on a response not yet begun.
HttpError(e, code) == [status |-> code, body |-> [error |-> e]]

\* The response after Encode(res): res, or the 500 of the error branch, or
\* what a failed write leaves (the header is out, http.Error comes late).
Encoded(res, enc) ==
    IF enc = "ok" THEN [status |-> StatusOK, body |-> res]
    ELSE IF enc = "marshal" THEN HttpError("encode", StatusInternalServerError)
    ELSE [status |-> StatusOK, body |-> [truncated |-> TRUE]]

\* handleConsume with a slip: ErrOffsetNotFound is not told apart.
handleConsumeResultNo404(dec, lr, enc) ==
    IF ~dec
    THEN [called |-> FALSE] @@ HttpError("decode", StatusBadRequest)
    ELSE IF lr.err # NoErr
    THEN [called |-> TRUE] @@ HttpError(lr.err, StatusInternalServerError)
    ELSE [called |-> TRUE] @@ Encoded([record |-> lr.record], enc)

\* What handleProduce answers: dec says whether the body decoded, lr is
\* what s.Log.Append returns if it is called, enc how Encode ends.
handleProduceResult(dec, lr, enc) ==
    IF ~dec
    THEN [called |-> FALSE] @@ HttpError("decode", StatusBadRequest)
    ELSE IF lr.err # NoErr
    THEN [called |-> TRUE] @@ HttpError(lr.err, StatusInternalServerError)
    ELSE [called |-> TRUE] @@ Encoded([offset |-> lr.off], enc)

\* What handleConsume answers; lr is what s.Log.Read returns if called.
handleConsumeResult(dec, lr, enc) ==
    IF ~dec
    THEN [called |-> FALSE] @@ HttpError("decode", StatusBadRequest)
    ELSE IF lr.err = "ErrOffsetNotFound"
    THEN [called |-> TRUE] @@ HttpError(lr.err, StatusNotFound)
    ELSE IF lr.err # NoErr
    THEN [called |-> TRUE] @@ HttpError(lr.err, StatusInternalServerError)
    ELSE [called |-> TRUE] @@ Encoded([record |-> lr.record], enc)

\* The request handled last and the response to it: whether the body
\* decoded, whether the log was called and the error it returned, and the
\* answer r.
Response(handler, dec, lr, r) ==
    [handler |-> handler, decoded |-> dec, called |-> r.called,
     logErr |-> IF r.called THEN lr.err ELSE NoErr,
     status |-> r.status, body |-> r.body]

\* handleProduce(w, r) for a POST whose body decodes to record rec, or does
\* not decode (dec false).
handleProduce ==
    \E dec \in BOOLEAN : \E rec \in Records :
    \E lr \in LogAppendResults : \E enc \in Encodings :
    \E r \in {handleProduceResult(dec, lr, enc)} :
        /\ Len(logCalls) < MaxLogCalls
        /\ logCalls' = IF r.called
                       THEN Append(logCalls, [op |-> "Append", arg |-> rec])
                       ELSE logCalls
        /\ resp' = Response("produce", dec, lr, r)
        /\ UNCHANGED storeVars

\* handleConsume(w, r) for a GET whose body decodes to offset off, or does
\* not decode.
handleConsume ==
    \E dec \in BOOLEAN : \E off \in ReqOffsets :
    \E lr \in LogReadResults : \E enc \in Encodings :
    \E r \in {handleConsumeResult(dec, lr, enc)} :
        /\ Len(logCalls) < MaxLogCalls
        /\ logCalls' = IF r.called
                       THEN Append(logCalls, [op |-> "Read", arg |-> off])
                       ELSE logCalls
        /\ resp' = Response("consume", dec, lr, r)
        /\ UNCHANGED storeVars

NextHTTP == handleProduce \/ handleConsume

SpecHTTP == Init /\ [][NextHTTP]_vars

(* ============================ properties =============================== *)
RECURSIVE SumN(_)
SumN(q) == IF q = << >> THEN 0 ELSE q[1].n + SumN(Tail(q))

\* The bytes this store instance has written to the file: under O_APPEND
\* what the file grew by, else how far the handle's offset has moved.
Written == IF fd.append THEN Len(file) - initSize ELSE fd.off

(* ------------------------------- C2 ------------------------------------ *)
\* C2: every successful Append returns the size before the call as its
\* position and 8 + len(payload) as bytes_written; so, in the order the
\* lock serialized them, the first position is the initial size, each next
\* position is the previous position plus the previous bytes_written, and
\* positions are unique and strictly increasing.
C2_PositionChaining ==
    /\ \A i \in 1..Len(hist) :
          /\ hist[i].n = lenWidth + Len(hist[i].p)
          /\ hist[i].pos = IF i = 1 THEN initSize
                           ELSE hist[i - 1].pos + hist[i - 1].n
    /\ \A i, j \in 1..Len(hist) : i < j => hist[i].pos < hist[j].pos
    /\ (last.op = "Append" /\ last.err = NoErr) =>
          /\ last.n = lenWidth + Len(last.p)
          /\ last.pos = size - last.n
          /\ hist[Len(hist)] = [pos |-> last.pos, n |-> last.n, p |-> last.p]

\* Two callers have each appended a record, with different payloads, on a
\* store opened on a file that already held data.
C2_Witness ==
    /\ Len(hist) = 2
    /\ callers = Procs
    /\ initSize > 0
    /\ hist[1].p # hist[2].p

(* ------------------------------- C4 ------------------------------------ *)
\* size is the initial size plus the bytes_written of the successful
\* Appends, and, as long as no write has failed, the initial size plus the
\* bytes the store has put into the file plus those still in its buffer.
SizeInv ==
    /\ size = initSize + SumN(hist)
    /\ berr = NoErr => size = initSize + Written + Len(buf)

\* C4: in every reachable state size equals the initial file length plus
\* the number of bytes logically appended (flushed or still buffered), and
\* no operation on a store makes size smaller.
C4_SizeInvariant ==
    /\ []SizeInv
    /\ [][last'.op # "newStore" => size' >= size]_vars

\* Bytes of both kinds are counted: some are in the file, some in the
\* buffer, and the store was opened on a file that held data.
C4_Witness ==
    /\ initSize > 0
    /\ Written > 0
    /\ Len(buf) > 0
    /\ berr = NoErr
    /\ size = initSize + Written + Len(buf)

(* ------------------------------- C8 ------------------------------------ *)
\* C8 as claimed: no Append, whatever the payload size and the fill of the
\* buffer, changes the backing file.
C8_AppendNeverFlushes == [][last'.op = "Append" => file' = file]_vars

\* The frame of payload p fits into the free space of the write buffer.
Fits(p) == Len(buf) + lenWidth + Len(p) <= defaultBufSize

\* C8 as amended: an Append whose frame fits into the free space of the
\* write buffer leaves the backing file unchanged (one whose frame does not
\* fit writes buffered bytes to the file itself), and the file changes only
\* inside Append, Read, ReadAt and Close.
C8_AppendFlushesOnlyWhenFull ==
    /\ [][(last'.op = "Append" /\ Fits(last'.p)) => file' = file]_vars
    /\ [][file' # file => last'.op \in {"Append", "Read", "ReadAt", "Close"}]_vars

\* An Append has put a second frame behind one the buffer already held, and
\* nothing has reached the file.
C8_Witness ==
    /\ last.op = "Append"
    /\ last.err = NoErr
    /\ Len(hist) = 2
    /\ buf = Frame(hist[1].p) \o Frame(hist[2].p)
    /\ file = << >>

(* ------------------------------- C9 ------------------------------------ *)
\* C9: an Append that returns an error returns (0, 0, err) and leaves size
\* as it was, and the bytes it had put into the buffer or the file stay.
C9_FailedAppendKeepsSize ==
    [][(last'.op = "Append" /\ last'.err # NoErr) =>
          /\ last'.n = 0
          /\ last'.pos = 0
          /\ size' = size
          /\ hist' = hist
          /\ Written' + Len(buf') >= Written + Len(buf)]_vars

\* An Append has failed in its payload write after its prefix went into the
\* buffer: size does not count the bytes that stay in the buffer and file.
C9_Witness ==
    /\ last.op = "Append"
    /\ last.err = "ENOSPC"
    /\ last.n = 0
    /\ hist = << >>
    /\ size = 0
    /\ Written > 0
    /\ Len(buf) > 0

(* ---------------------- reads, as a caller sees them ------------------- *)
\* What Read(pos) returns when called in this state on a sound medium, and
\* the file as that Read's flush leaves it.
ReadNow(pos) == ReadResult(Flush(Writer(Sound)), pos, FALSE)
FlushedFile == Flush(Writer(Sound)).file

\* The store is open and no write of it has failed.
Healthy == ~fd.closed /\ berr = NoErr

(* ------------------------------- C1 ------------------------------------ *)
\* C1: on an open store, a Read at the position a successful Append
\* returned gives back exactly the payload of that Append, the empty
\* payload included, whatever calls came before.
C1_RoundTrip ==
    (last.op = "Read" /\ ~fd.closed) =>
        \A i \in 1..Len(hist) :
            hist[i].pos = last.off =>
                (last.err = NoErr /\ last.data = hist[i].p)

(* ------------------------------- C3 ------------------------------------ *)
\* The restart scenario: a store on the empty file appended p1 and closed,
\* a new store was opened on the file and has appended p2.
Restarted ==
    /\ Len(snap.hist) = 1
    /\ snap.hist[1].pos = 0
    /\ Len(hist) = 1
    /\ Healthy

\* C3: a store opened on a file that holds data starts with size equal to
\* the file's length, and after Append(p1), Close, reopen, Append(p2) the
\* second position is 8 + len(p1), Read(position(p1)) returns p1 and
\* Read(position(p2)) returns p2.
C3_RestartRecovery ==
    /\ (last.op = "newStore" /\ last.err = NoErr) => size = Len(file)
    /\ Restarted =>
          /\ hist[1].pos = lenWidth + Len(snap.hist[1].p)
          /\ ReadNow(snap.hist[1].pos) = [data |-> snap.hist[1].p, err |-> NoErr]
          /\ ReadNow(hist[1].pos) = [data |-> hist[1].p, err |-> NoErr]

(* ------------------------------- C5 ------------------------------------ *)
\* C5: when several callers have appended different payloads on one open
\* store, every Append succeeded, the byte ranges [position, position +
\* bytes_written) do not overlap, Read returns each payload at its position,
\* and the bytes_written add up to the file's final size minus the initial
\* size.
C5_ConcurrentAppendSafety ==
    /\ (last.op = "Append" /\ ~fd.closed) => last.err = NoErr
    /\ (Healthy /\ Cardinality(callers) > 1
          /\ \A i, j \in 1..Len(hist) : i # j => hist[i].p # hist[j].p) =>
          /\ \A i, j \in 1..Len(hist) :
                 i < j => hist[i].pos + hist[i].n <= hist[j].pos
          /\ \A i \in 1..Len(hist) :
                 ReadNow(hist[i].pos) = [data |-> hist[i].p, err |-> NoErr]
          /\ SumN(hist) = Len(FlushedFile) - initSize

(* ------------------------------- C6 ------------------------------------ *)
\* C6: when a Read or ReadAt has passed its flush the write buffer is empty,
\* the file is as long as size says, and the frame of every Append that
\* returned before is in the file at its position.
C6_BufferedVisibility ==
    (last.op \in {"Read", "ReadAt"} /\ Healthy) =>
        /\ buf = << >>
        /\ Len(file) = size
        /\ \A i \in 1..Len(hist) :
               Slice(file, hist[i].pos, hist[i].n) = Frame(hist[i].p)

(* ------------------------------- C7 ------------------------------------ *)
\* C7: after a Close that returned no error the file holds the frame of
\* every record appended before, each at its position, although no read
\* was ever called; and a store then opened on the file starts with the
\* closed store's size and reads every one of those payloads back.
C7_CloseDurability ==
    /\ (last.op = "Close" /\ last.err = NoErr) =>
          \A i \in 1..Len(hist) :
              Slice(file, hist[i].pos, hist[i].n) = Frame(hist[i].p)
    /\ (last.op = "newStore" /\ last.err = NoErr) =>
          /\ size = snap.size
          /\ \A i \in 1..Len(snap.hist) :
                 ReadNow(snap.hist[i].pos)
                     = [data |-> snap.hist[i].p, err |-> NoErr]

(* ------------------------------- C10 ----------------------------------- *)
\* The prefix at pos, or the payload it announces, ends past the end of the
\* log: the eight bytes at pos do not all lie below size, or they do and
\* decode to a length that leads past it.
OutOfRange(pos) ==
    \/ pos + lenWidth > size
    \/ LET hd == FileReadAt(file, fd, Sound, lenWidth, pos)
       IN  /\ hd.err = NoErr
           /\ \/ Uint64Class(hd.data) # "small"
              \/ pos + lenWidth + Uint64Low(hd.data) > size

\* What a call returns when it returns an error: not nil, and a value, so
\* neither a panic nor the end of the process.
IsError(e) == e \notin {NoErr, "panic", "fatal"}

\* C10: a Read at a position that is out of range returns an error and no
\* payload, and leaves size as it was.
C10_ReadOutOfRangeFails ==
    (last.op = "Read" /\ Healthy /\ OutOfRange(last.off)) =>
        (IsError(last.err) /\ last.data = << >>)

(* ------------------------------- C11 ----------------------------------- *)
\* f is a whole number of complete frames: empty, or an 8-byte prefix, the
\* payload of the length it announces, and again a whole number of frames.
RECURSIVE WholeFrames(_)
WholeFrames(f) ==
    \/ f = << >>
    \/ /\ Len(f) >= lenWidth
       /\ Uint64Class(SubSeq(f, 1, lenWidth)) = "small"
       /\ lenWidth + Uint64Low(SubSeq(f, 1, lenWidth)) <= Len(f)
       /\ WholeFrames(SubSeq(f, lenWidth + Uint64Low(SubSeq(f, 1, lenWidth)) + 1,
                             Len(f)))

\* C11: whenever a Read or ReadAt has touched the file (its flush did not
\* fail and the handle is open), nothing is left in the buffer and the file
\* is a whole number of complete frames: no prefix without its payload.
C11_NoPartialFrames ==
    (last.op \in {"Read", "ReadAt"} /\ Healthy) =>
        (buf = << >> /\ WholeFrames(file))

(* ------------------------------- C12 ----------------------------------- *)
\* The frames of the Appends q, one behind the other.
RECURSIVE Frames(_)
Frames(q) == IF q = << >> THEN << >> ELSE Frame(q[1].p) \o Frames(Tail(q))

\* C12 as claimed: on a store opened on an empty file, in every reachable
\* state the file's bytes followed by the buffered bytes are the frames of
\* the successful Appends, in their order, from offset 0 and without gaps.
C12_OnDiskFormat ==
    initSize = 0 => file \o buf = Frames(hist)

\* C12 as amended: the same, in every reachable state in which no write of
\* the store has failed (a failed Append leaves the bytes it had written in
\* the file and the buffer, and they belong to no successful Append).
C12_OnDiskFormatUntilFailure ==
    (initSize = 0 /\ berr = NoErr) => file \o buf = Frames(hist)

\* Two different records were appended on a store opened on the empty file;
\* part of their bytes is in the file and part in the buffer.
C12_Witness ==
    /\ initSize = 0
    /\ berr = NoErr
    /\ Len(hist) = 2
    /\ hist[1].p # hist[2].p
    /\ file # << >>
    /\ buf # << >>
    /\ file \o buf = Frame(hist[1].p) \o Frame(hist[2].p)

(* ------------------------------- C13 ----------------------------------- *)
\* C13: a ReadAt that returns no error has filled its whole buffer; and on
\* an open store a ReadAt with an 8-byte buffer at the position of a record
\* this store appended, flushed before or not, returns the 8 bytes that
\* decode, big-endian, to the length of the record's payload.
C13_ReadAtExactness ==
    last.op = "ReadAt" =>
        /\ last.err = NoErr => Len(last.data) = last.len
        /\ (Healthy /\ last.len = lenWidth) =>
              \A i \in 1..Len(hist) :
                  hist[i].pos = last.off =>
                      /\ last.err = NoErr
                      /\ Len(last.data) = lenWidth
                      /\ Uint64Class(last.data) = "small"
                      /\ Uint64Low(last.data) = Len(hist[i].p)

(* ------------------------------- C14 ----------------------------------- *)
\* The four operations that take the store's lock.
StoreOps == {"Append", "Read", "ReadAt", "Close"}

\* At most one caller is inside a critical section, and it is the one that
\* holds the mutex.
MutexInv ==
    /\ \A c, e \in Procs : (pc[c] = "cs" /\ pc[e] = "cs") => c = e
    /\ \A c \in Procs : pc[c] = "cs" <=> mu = c

\* C14: at most one of Append, Read, ReadAt and Close is inside its
\* critical section at any time; each of them runs, from its first access
\* to its return, with the lock held by its caller; and the buffer, the
\* size and the file change only under the lock (or when newStore makes a
\* new store, which no caller can reach yet).
C14_MutualExclusion ==
    /\ []MutexInv
    /\ [][last'.op \in StoreOps => (mu # 0 /\ pc[mu] = "cs" /\ pc'[mu] = "lock")]_vars
    /\ [][<<file, fd, buf, berr, size>>' # <<file, fd, buf, berr, size>> =>
             (mu # 0 \/ last'.op = "newStore")]_vars

\* One caller is inside its critical section while the other one, which
\* has appended to the store as well, waits for the lock.
C14_Witness ==
    /\ mu = 1
    /\ pc[1] = "cs"
    /\ pc[2] = "lock"
    /\ callers = Procs
    /\ buf # << >>

(* ------------------------------- C15 ----------------------------------- *)
\* C15: every Close on an open store ends with the file handle released,
\* and it returns an error exactly when its flush or the closing of the
\* file failed (closing an open handle does not fail here, so: exactly when
\* the flush failed).
C15_CloseReleasesHandle ==
    [][(last'.op = "Close" /\ ~fd.closed) =>
          /\ fd'.closed
          /\ last'.err # NoErr <=> berr' # NoErr]_vars

(* ------------------------------- C16 ----------------------------------- *)
\* The life of one store, from newStore on: its callers take the lock and
\* make their calls, on sound and on failing media.
NextLive ==
    \/ \E c \in Procs : Lock(c)
    \/ \E c \in Procs : \E d \in {Sound} \cup Failing : Call(c, d)

\* Fair scheduling: a caller that holds the lock runs its call to the end,
\* and a caller that finds the lock free again and again gets it in the end
\* (sync.Mutex hands the lock to a waiter that has starved).
Fairness ==
    \A c \in Procs :
        /\ SF_vars(Lock(c))
        /\ WF_vars(\E d \in {Sound} \cup Failing : Call(c, d))

SpecLive == Init /\ [][NextLive]_vars /\ Fairness

\* C16: every return of Append, Read, ReadAt and Close, error returns
\* included, leaves the lock free; and under fair scheduling every caller,
\* each calling again and again, is always again inside its call (a caller
\* waiting at the lock eventually holds it) and always again outside (its
\* call eventually returns).
C16_LockReleaseAndProgress ==
    /\ [][last'.op \in StoreOps => mu' = 0]_vars
    /\ \A c \in Procs : []<>(pc[c] = "cs") /\ []<>(pc[c] = "lock")

\* A Close has returned its flush error and the lock is free again.
C16_Witness ==
    /\ last.op = "Close"
    /\ last.err = "ENOSPC"
    /\ ~fd.closed
    /\ mu = 0
    /\ pc = [c \in Procs |-> "lock"]

(* ------------------------------- C17 ----------------------------------- *)
\* C17: a Read or ReadAt, failed or not, leaves size and the list of
\* appended records as they were, and leaves the file's bytes followed by
\* the buffered bytes as they were: all it does to them is move bytes from
\* the front of the buffer to the file.
C17_ReadsKeepLog ==
    [][last'.op \in {"Read", "ReadAt"} =>
          /\ size' = size
          /\ hist' = hist
          /\ Len(buf') <= Len(buf)
          /\ file' \o buf' = file \o buf]_vars

(* ------------------------------- C18 ----------------------------------- *)
\* C18: once a write of the store's buffered writer has failed (its error
\* is set), every later Append, Read, ReadAt and Close returns that error,
\* and none of them changes size, the file or the handle any more: Close
\* returns the error and leaves the handle as it is.
C18_WriteFailurePermanent ==
    [][(berr # NoErr /\ last'.op \in StoreOps) =>
          /\ last'.err = berr
          /\ berr' = berr
          /\ size' = size
          /\ hist' = hist
          /\ file' = file
          /\ fd' = fd]_vars

\* An Append failed on a full medium after part of its frame was buffered,
\* and a Read that came later, on whatever medium, returned the same error.
C18_Witness ==
    /\ last.op = "Read"
    /\ last.err = "ENOSPC"
    /\ berr = "ENOSPC"
    /\ hist = << >>
    /\ Len(buf) > 0
    /\ ~fd.closed

(* ------------------------------- C19 ----------------------------------- *)
\* The store was closed without error and nothing has failed since.
ClosedClean == fd.closed /\ berr = NoErr

\* What C19 says of Append and Close after a successful Close: an Append
\* whose frame fits into the write buffer returns no error and advances
\* size, no call changes the file any more, and a further Close returns
\* the error of closing a closed file and changes neither size nor file.
UseAfterCloseWrites ==
    /\ [][(ClosedClean /\ last'.op = "Append" /\ Fits(last'.p)) =>
             /\ last'.err = NoErr
             /\ size' = size + lenWidth + Len(last'.p)
             /\ buf' = buf \o Frame(last'.p)]_vars
    /\ [][(fd.closed /\ last'.op \in StoreOps) => (file' = file /\ fd' = fd)]_vars
    /\ [][(fd.closed /\ last'.op = "Close") =>
             (last'.err = "ErrClosed" /\ size' = size)]_vars

HasValue(b) == "record" \in DOMAIN b \/ "offset" \in DOMAIN b

\* C20: a request whose body does not decode is answered 400 without a
\* call to the log; handleProduce answers 500 when Log.Append returns an
\* error; handleConsume answers 404 exactly when Log.Read returns
\* ErrOffsetNotFound and 500 for every other error of Log.Read; and a record
\* or an offset is in the response only when the log was called and
\* returned no error.
C20_HTTPErrorMapping ==
    /\ [][resp'.handler # "none" =>
             /\ ~resp'.decoded =>
                   (resp'.status = StatusBadRequest /\ logCalls' = logCalls)
             /\ resp'.decoded => Len(logCalls') = Len(logCalls) + 1]_vars
    /\ []((resp.handler = "produce" /\ resp.logErr # NoErr) =>
              resp.status = StatusInternalServerError)
    /\ [](resp.handler = "consume" =>
              /\ resp.status = StatusNotFound <=> resp.logErr = "ErrOffsetNotFound"
              /\ resp.logErr \notin {NoErr, "ErrOffsetNotFound"} =>
                     resp.status = StatusInternalServerError)
    /\ [](HasValue(resp.body) => (resp.called /\ resp.logErr = NoErr))

\* handleConsume has answered 404 to a request at an offset the log did not
\* find, after other requests were served.
C20_Witness ==
    /\ resp.handler = "consume"
    /\ resp.status = StatusNotFound
    /\ resp.logErr = "ErrOffsetNotFound"
    /\ Len(logCalls) = MaxLogCalls
    /\ logCalls[Len(logCalls)].op = "Read"
    /\ logCalls[1].op = "Append"

====
